---- MODULE Spec2Model ----
(***************************************************************************)
(* Model of lib/Frontend/Frontend.cpp: CompilerInstance::setup and         *)
(* CompilerInstance::doIt.  The parser, the type checker and the source    *)
(* manager are collaborators that live outside Frontend.cpp; they are      *)
(* modelled at their call boundary.                                        *)
(***************************************************************************)
EXTENDS Integers, Sequences, FiniteSets, TLC

\* ------------------------------------------------------------------ bounds
MaxDecls == 2       \* readable file k holds k top-level declarations, k in 0..MaxDecls
MaxPaths == 2       \* longest list of input file names in a configuration
MaxMemBufs == 1     \* longest list of in-memory input buffers in a configuration
MaxSetups == 2      \* setup calls on one instance in the session specification
MaxMutations == 1   \* caller-side writes to caller-owned buffers
MaxEmpty == 1       \* empty non-final batches the incremental parser may return

\* ------------------------------------------------------- values and inputs
NullPtr == 0
CallerAddrs == {1, 2}
Tokens == {1, 2}
BadPath == -1
ReadablePaths == 0..MaxDecls
Paths == ReadablePaths \cup {BadPath}
Kinds == {"Library", "Main", "REPL", "SIL"}
NoPoint == <<-1, -1>>
RuntimeIncludePath == "rt"

SeqsUpTo(S, n) == UNION {[1..k -> S] : k \in 0..n}

\* Contents of the readable file k: k declarations.
FileContent(p) == [i \in 1..p |-> 1 + (i % 2)]

\* llvm::MemoryBuffer::getFileOrSTDIN: TRUE (an error code) for an unreadable path.
getFileOrSTDINFails(p) == p \notin ReadablePaths

\* Lexer::isIdentifier on the configured module names.
isIdentifier(name) == name \in {"main"}

\* CompilerInvocation::isCodeCompletion
isCodeCompletion(inv) == inv.CodeCompletionPoint[1] # NullPtr

VARIABLES
  NDEBUG,           \* build: asserts compiled out
  ImporterLinked,   \* build: swift::getClangImporterCtor() returns a constructor
  heap,             \* memory buffers: address -> [buf, ident]; CallerAddrs are the caller's
  mutations,        \* number of caller-side writes so far
  Invocation,       \* CompilerInstance::Invocation
  Context,          \* ASTContext: ImportSearchPaths and the module loaders
  TheSILModule,     \* TRUE once createSILModule has run
  SourceMgr,        \* [bufs: address of each registered buffer, ccPoint, hashbang]
  BufferIDs,        \* CompilerInstance::BufferIDs
  Diagnostics,      \* diagnostics emitted by setup
  setupLog,         \* one record per setup call (history)
  pc,               \* position of the instance: constructed / ready / doIt positions
  TU,               \* the TranslationUnit: [Name, Files], Files the kinds of its SourceFiles
  SF,               \* the single SourceFile: [Kind, Decls], or NoSF
  lexPos,           \* PersistentParserState / lexer position in the pumped buffer
  DelayedCB,        \* "None", "CodeComplete" or "AlwaysDelayed"
  BufferID,         \* doIt local
  CurTUElem,        \* doIt local
  Done,             \* doIt local
  libNext,          \* index into BufferIDs of the Library loop
  trace,            \* calls made by doIt, in order (history)
  iters,            \* pump-loop iterations completed (history)
  empties,          \* pump-loop iterations whose batch was empty (history)
  HadError          \* a parse or check call of the pump loop reported an error diagnostic

setupVars == <<Invocation, Context, TheSILModule, SourceMgr, BufferIDs,
               Diagnostics, setupLog>>
runVars == <<TU, SF, lexPos, DelayedCB, BufferID, CurTUElem, Done, libNext, trace,
             iters, empties, HadError>>
vars == <<NDEBUG, ImporterLinked, heap, mutations, Invocation, Context,
          TheSILModule, SourceMgr, BufferIDs, Diagnostics, setupLog, pc, TU, SF,
          lexPos, DelayedCB, BufferID, CurTUElem, Done, libNext, trace, iters,
          empties, HadError>>

NoSF == [Kind |-> "none", Decls |-> <<>>]
NoInvocation ==
  [SDKPath |-> "", Immediate |-> FALSE, ImportSearchPaths |-> <<>>,
   InputKind |-> "Library", ModuleName |-> "main",
   CodeCompletionPoint |-> <<NullPtr, 0>>, InputFilenames |-> <<>>,
   InputBuffers |-> <<>>, ParseOnly |-> FALSE,
   DelayedFunctionBodyParsing |-> FALSE]

\* ------------------------------------------------------------- Init
InitCallerHeap ==
  [a \in CallerAddrs |-> [buf |-> [i \in 1..a |-> 1 + (i % 2)], ident |-> 100 + a]]

Init ==
  /\ NDEBUG \in BOOLEAN
  /\ ImporterLinked \in BOOLEAN
  /\ heap = InitCallerHeap
  /\ mutations = 0
  /\ Invocation = NoInvocation
  /\ Context = [ImportSearchPaths |-> <<>>, Loaders |-> <<>>, LoadedModules |-> {}]
  /\ TheSILModule = FALSE
  /\ SourceMgr = [bufs |-> <<>>, ccPoint |-> NoPoint, hashbang |-> -1]
  /\ BufferIDs = <<>>
  /\ Diagnostics = <<>>
  /\ setupLog = <<>>
  /\ pc = "constructed"
  /\ TU = [Name |-> "", Files |-> <<>>]
  /\ SF = NoSF
  /\ lexPos = 0
  /\ DelayedCB = "None"
  /\ BufferID = -1
  /\ CurTUElem = 0
  /\ Done = FALSE
  /\ libNext = 1
  /\ trace = <<>>
  /\ iters = 0
  /\ empties = 0
  /\ HadError = FALSE

\* ------------------------------------------------------------- setup
SourceLoader(skipBodies) == [kind |-> "SourceLoader", arg |-> skipBodies]
SerializedModuleLoader == [kind |-> "SerializedModuleLoader", arg |-> FALSE]
ClangImporter == [kind |-> "ClangImporter", arg |-> TRUE]

\* ASTContext::addModuleLoader
addModuleLoader(ctx, l) == [ctx EXCEPT !.Loaders = Append(@, l)]

\* llvm::MemoryBuffer::getMemBufferCopy: a new object holding the same bytes.
\* Result: the heap with the new object, whose address is Len of the result.
getMemBufferCopy(h, a) == Append(h, [buf |-> h[a].buf, ident |-> h[a].ident])

\* SourceManager::AddNewSourceBuffer: ids are 0, 1, 2, ... in registration order.
AddNewSourceBuffer(sm, addr) == [sm EXCEPT !.bufs = Append(@, addr)]
LastBufferID(sm) == Len(sm.bufs) - 1

\* SourceManager::setCodeCompletionPoint: fails, changing nothing, if a point is set.
setCodeCompletionPoint(sm, id, off) ==
  IF sm.ccPoint = NoPoint THEN [sm EXCEPT !.ccPoint = <<id, off>>] ELSE sm

\* The threaded state of setup's buffer acquisition.
\*   h: heap, sm: SourceMgr, ids: BufferIDs, opened: paths tried, reg: ids pushed
AcqState(h, sm, ids) == [h |-> h, sm |-> sm, ids |-> ids, opened |-> <<>>, reg |-> <<>>,
                         failed |-> FALSE]

\* Lines 81-93: the code-completion buffer.
IngestCompletionBufferAlias(st, point) ==
  IF point[1] = NullPtr THEN st
  ELSE LET sm1 == AddNewSourceBuffer(st.sm, point[1])
           id == LastBufferID(sm1)
       IN [st EXCEPT !.sm = setCodeCompletionPoint(sm1, id, point[2]),
                     !.ids = Append(@, id), !.reg = Append(@, id)]

IngestCompletionBuffer(st, point) ==
  IF point[1] = NullPtr THEN st
  ELSE LET h1 == getMemBufferCopy(st.h, point[1])
           sm1 == AddNewSourceBuffer(st.sm, Len(h1))
           id == LastBufferID(sm1)
       IN [st EXCEPT !.h = h1,
                     !.sm = setCodeCompletionPoint(sm1, id, point[2]),
                     !.ids = Append(@, id), !.reg = Append(@, id)]

\* Lines 95-107: the input files, in order, stopping at the first that fails to open.
RECURSIVE IngestFilesNoStop(_, _, _)
IngestFilesNoStop(st, files, i) ==
  IF i > Len(files) THEN st
  ELSE IF getFileOrSTDINFails(files[i])
       THEN IngestFilesNoStop([st EXCEPT !.opened = Append(@, files[i]), !.failed = TRUE],
                              files, i + 1)
       ELSE LET h1 == Append(st.h, [buf |-> FileContent(files[i]), ident |-> files[i]])
                sm1 == AddNewSourceBuffer(st.sm, Len(h1))
            IN IngestFilesNoStop([st EXCEPT !.h = h1, !.sm = sm1,
                                      !.ids = Append(@, LastBufferID(sm1)),
                                      !.reg = Append(@, LastBufferID(sm1)),
                                      !.opened = Append(@, files[i])],
                                 files, i + 1)

RECURSIVE IngestFiles(_, _, _)
IngestFiles(st, files, i) ==
  IF i > Len(files) THEN st
  ELSE IF getFileOrSTDINFails(files[i])
       THEN [st EXCEPT !.opened = Append(@, files[i]), !.failed = TRUE]
       ELSE LET h1 == Append(st.h, [buf |-> FileContent(files[i]), ident |-> files[i]])
                sm1 == AddNewSourceBuffer(st.sm, Len(h1))
            IN IngestFiles([st EXCEPT !.h = h1, !.sm = sm1,
                                      !.ids = Append(@, LastBufferID(sm1)),
                                      !.reg = Append(@, LastBufferID(sm1)),
                                      !.opened = Append(@, files[i])],
                           files, i + 1)

\* Lines 109-115: the caller's in-memory buffers, each copied.
RECURSIVE IngestBuffersAlias(_, _, _)
IngestBuffersAlias(st, bufs, i) ==
  IF i > Len(bufs) THEN st
  ELSE LET sm1 == AddNewSourceBuffer(st.sm, bufs[i])
       IN IngestBuffersAlias([st EXCEPT !.sm = sm1,
                                   !.ids = Append(@, LastBufferID(sm1)),
                                   !.reg = Append(@, LastBufferID(sm1))],
                             bufs, i + 1)

RECURSIVE IngestBuffers(_, _, _)
IngestBuffers(st, bufs, i) ==
  IF i > Len(bufs) THEN st
  ELSE LET h1 == getMemBufferCopy(st.h, bufs[i])
           sm1 == AddNewSourceBuffer(st.sm, Len(h1))
       IN IngestBuffers([st EXCEPT !.h = h1, !.sm = sm1,
                                   !.ids = Append(@, LastBufferID(sm1)),
                                   !.reg = Append(@, LastBufferID(sm1))],
                        bufs, i + 1)

\* Line 50: an SDK was specified.
HasSDK(Invok) == Invok.SDKPath # ""

\* Lines 50-52: an SDK was specified and there is no importer constructor.
ImporterMissingIgnored(Invok, linked) == FALSE

ImporterMissing(Invok, linked) == HasSDK(Invok) /\ ~linked

\* Lines 42-46: the context's search paths and the two default loaders.
DefaultContextSwapped(Invok) ==
  addModuleLoader(
    addModuleLoader([ImportSearchPaths |-> Invok.ImportSearchPaths, Loaders |-> <<>>,
                     LoadedModules |-> {}],
                    SerializedModuleLoader),
    SourceLoader(~Invok.Immediate))

DefaultContext(Invok) ==
  addModuleLoader(
    addModuleLoader([ImportSearchPaths |-> Invok.ImportSearchPaths, Loaders |-> <<>>,
                     LoadedModules |-> {}],
                    SourceLoader(~Invok.Immediate)),
    SerializedModuleLoader)

\* Lines 50 and 70: the importer, once constructed, joins the loaders.
AddImporterFirst(ctx, Invok) ==
  IF HasSDK(Invok) THEN [ctx EXCEPT !.Loaders = <<ClangImporter>> \o @] ELSE ctx

AddImporter(ctx, Invok) ==
  IF HasSDK(Invok) THEN addModuleLoader(ctx, ClangImporter) ELSE ctx

\* Lines 81-115: everything setup registers once the loaders are in place.
AcquireBuffersFirst(Invok, h, sm, ids) ==
  LET st1 == IngestBuffers(IngestCompletionBuffer(AcqState(h, sm, ids),
                                                  Invok.CodeCompletionPoint),
                           Invok.InputBuffers, 1)
  IN IngestFiles(st1, Invok.InputFilenames, 1)

AcquireAfterFailure(Invok, h, sm, ids) ==
  IngestBuffers(
    IngestFiles(IngestCompletionBuffer(AcqState(h, sm, ids), Invok.CodeCompletionPoint),
                Invok.InputFilenames, 1),
    Invok.InputBuffers, 1)

Acquire(Invok, h, sm, ids) ==
  LET st2 == IngestFiles(IngestCompletionBuffer(AcqState(h, sm, ids),
                                                Invok.CodeCompletionPoint),
                         Invok.InputFilenames, 1)
  IN IF st2.failed THEN st2 ELSE IngestBuffers(st2, Invok.InputBuffers, 1)

SetupRecord(ret, diag, file, st, ccReq, ctorOK) ==
  [ret |-> ret, ctor |-> ctorOK, diag |-> diag, file |-> file, opened |-> st.opened, reg |-> st.reg,
   idsBefore |-> BufferIDs, silBefore |-> TheSILModule,
   callerBefore |-> [a \in CallerAddrs |-> heap[a].buf],
   ccBefore |-> SourceMgr.ccPoint, ccReq |-> ccReq]

\* CompilerInstance::setup.  ctorOK: the importer constructor returns a loader.
Setup(Invok, ctorOK) ==
  /\ pc \in {"constructed", "ready"}
  /\ LET ctx0 == DefaultContext(Invok)
         st0 == AcqState(heap, SourceMgr, BufferIDs)
         ccReq == Invok.CodeCompletionPoint[1] # NullPtr
     IN
     /\ Invocation' = Invok
     /\ IF ImporterMissing(Invok, ImporterLinked) THEN
          \* lines 52-56
          /\ Context' = ctx0
          /\ Diagnostics' = Append(Diagnostics,
                                   [ID |-> "error_clang_importer_not_linked_in", file |-> -2])
          /\ setupLog' = Append(setupLog,
               SetupRecord(TRUE, "error_clang_importer_not_linked_in", -2, st0, ccReq,
                           ctorOK))
          /\ pc' = "ready"
          /\ UNCHANGED <<heap, TheSILModule, SourceMgr, BufferIDs>>
        ELSE IF HasSDK(Invok) /\ ~ctorOK THEN
          \* lines 65-68
          /\ Context' = ctx0
          /\ Diagnostics' = Append(Diagnostics,
                                   [ID |-> "error_clang_importer_create_fail", file |-> -2])
          /\ setupLog' = Append(setupLog,
               SetupRecord(TRUE, "error_clang_importer_create_fail", -2, st0, ccReq,
                           ctorOK))
          /\ pc' = "ready"
          /\ UNCHANGED <<heap, TheSILModule, SourceMgr, BufferIDs>>
        ELSE
          LET ctx1 == AddImporter(ctx0, Invok)
              ctx2 == [ctx1 EXCEPT !.ImportSearchPaths = Append(@, RuntimeIncludePath)]
          IN
          /\ Context' = ctx2
          /\ IF ~NDEBUG /\ ~isIdentifier(Invok.ModuleName) THEN
               \* line 76: the assertion fails
               /\ pc' = "aborted"
               /\ setupLog' = Append(setupLog, SetupRecord(TRUE, "assert", -2, st0, ccReq,
                                                                   ctorOK))
               /\ UNCHANGED <<heap, TheSILModule, SourceMgr, BufferIDs, Diagnostics>>
             ELSE
               LET st == Acquire(Invok, heap, SourceMgr, BufferIDs)
                   bad == st.opened[Len(st.opened)]
               IN
               /\ TheSILModule' = (TheSILModule \/ Invok.InputKind = "SIL")
               /\ heap' = st.h
               /\ SourceMgr' = st.sm
               /\ BufferIDs' = st.ids
               /\ pc' = "ready"
               /\ IF st.failed THEN
                    /\ Diagnostics' = Append(Diagnostics,
                                             [ID |-> "error_open_input_file", file |-> bad])
                    /\ setupLog' = Append(setupLog,
                         SetupRecord(TRUE, "error_open_input_file", bad, st, ccReq, ctorOK))
                  ELSE
                    /\ Diagnostics' = Diagnostics
                    /\ setupLog' = Append(setupLog, SetupRecord(FALSE, "none", -2, st, ccReq,
                                                                        ctorOK))
  /\ UNCHANGED <<NDEBUG, ImporterLinked, mutations>>
  /\ UNCHANGED runVars

\* The caller writes to (or discards and reuses) one of its own buffers.
CallerMutate(a, c) ==
  /\ mutations < MaxMutations
  /\ a \in CallerAddrs
  /\ heap[a].buf # c
  /\ heap' = [heap EXCEPT ![a].buf = c]
  /\ mutations' = mutations + 1
  /\ UNCHANGED <<NDEBUG, ImporterLinked, pc>>
  /\ UNCHANGED setupVars
  /\ UNCHANGED runVars

\* ------------------------------------------------------------- doIt
\* The bytes the source manager holds for a buffer id (nothing for an id it never issued).
BufferContent(id) ==
  IF id \in 0..(Len(SourceMgr.bufs) - 1) THEN heap[SourceMgr.bufs[id + 1]].buf ELSE <<>>

\* The declarations the parser produces from positions from+1..to of buffer id.
ParsedDecls(id, from, to) ==
  [k \in 1..(to - from) |-> [buf |-> id, idx |-> from + k, tok |-> BufferContent(id)[from + k]]]

Call(op, buf, from, to, sil, cb) ==
  [op |-> op, buf |-> buf, from |-> from, to |-> to, sil |-> sil, cb |-> cb]

\* Line 129: the kind for which doIt returns before any parsing.
ReturnsBeforeParsingNever(Kind) == FALSE

ReturnsBeforeParsing(Kind) == Kind = "REPL"

\* Lines 171 and 181: the SILParserState handed to the parser; 0 is nullptr, 1 is
\* SILContext, the one object constructed before the loop.  iter is the number of the
\* loop iteration making the call.
SILContextArgFresh(silModule, iter) == IF silModule THEN iter ELSE 0

SILContextArg(silModule, iter) == IF silModule THEN 1 ELSE 0

\* Lines 132-138: the delayed-parsing callbacks.
SelectDelayedCBFlagFirst(inv) ==
  IF inv.DelayedFunctionBodyParsing THEN "AlwaysDelayed"
  ELSE IF isCodeCompletion(inv) THEN "CodeComplete"
  ELSE "None"

SelectDelayedCB(inv) ==
  IF isCodeCompletion(inv) THEN "CodeComplete"
  ELSE IF inv.DelayedFunctionBodyParsing THEN "AlwaysDelayed"
  ELSE "None"

\* Lines 153 and 183: the guard of performTypeChecking.
ShouldTypeCheckAlways(inv) == TRUE

ShouldTypeCheck(inv) == ~inv.ParseOnly

\* Line 184: the first element performTypeChecking looks at.
CheckStartZero(cur) == 0

CheckStartNext(cur) == cur + 1

CheckStart(cur) == cur

\* Line 185: the cursor after an iteration.
NextCurTUElemStale(sf, cur) == IF cur < Len(sf.Decls) THEN cur + 1 ELSE cur

NextCurTUElemOver(sf, cur) == Len(sf.Decls) + 1

NextCurTUElem(sf, cur) == Len(sf.Decls)

\* Line 186: the loop condition.
LoopAgainNever(done) == FALSE

LoopAgainUnlessError(done) == ~done /\ ~HadError

LoopAgain(done) == ~done

\* Lines 156 and 188: where doIt goes once parsing and checking are over.
AfterPumpAlwaysDelayed(cb) == "Delayed"

AfterPump(cb) == IF cb # "None" THEN "Delayed" ELSE "returned"

\* Lines 121-140 and, for Main and SIL, lines 163-173.
DoItBegin ==
  /\ pc = "ready"
  /\ setupLog[Len(setupLog)].ret = FALSE
  /\ LET Kind == Invocation.InputKind IN
     /\ TU' = [Name |-> Invocation.ModuleName, Files |-> <<Kind>>]
     /\ Context' = [Context EXCEPT !.LoadedModules = @ \cup {Invocation.ModuleName}]
     /\ SF' = [Kind |-> Kind, Decls |-> <<>>]
     /\ CurTUElem' = 0
     /\ IF ReturnsBeforeParsing(Kind) THEN
          /\ pc' = "returned"
          /\ UNCHANGED <<DelayedCB, BufferID, SourceMgr>>
        ELSE
          /\ DelayedCB' = SelectDelayedCB(Invocation)
          /\ IF Kind = "Library" THEN
               /\ pc' = "LibraryLoop"
               /\ UNCHANGED <<BufferID, SourceMgr>>
             ELSE IF Len(BufferIDs) # 1 /\ ~NDEBUG THEN
               \* line 165: the assertion fails
               /\ pc' = "aborted"
               /\ UNCHANGED <<BufferID, SourceMgr>>
             ELSE IF Len(BufferIDs) = 0 THEN
               \* BufferIDs[0] of an empty vector: the process dies, or some value is read
               \/ /\ pc' = "crashed"
                  /\ UNCHANGED <<BufferID, SourceMgr>>
               \/ \E g \in 0..1 :
                    /\ BufferID' = g
                    /\ pc' = "Parsing"
                    /\ SourceMgr' = IF Kind = "Main"
                                    THEN [SourceMgr EXCEPT !.hashbang = g] ELSE SourceMgr
             ELSE
               /\ BufferID' = BufferIDs[1]
               /\ pc' = "Parsing"
               /\ SourceMgr' = IF Kind = "Main"
                               THEN [SourceMgr EXCEPT !.hashbang = BufferIDs[1]]
                               ELSE SourceMgr
  /\ UNCHANGED <<NDEBUG, ImporterLinked, heap, mutations, Invocation, TheSILModule,
                 BufferIDs, Diagnostics, setupLog, lexPos, Done, libNext, trace, iters,
                 empties, HadError>>

\* Lines 144-150: one buffer of the Library loop; the parser consumes it whole.
LibraryBufferBackwards(i) == Len(BufferIDs) + 1 - i

LibraryBuffer(i) == i

LibraryParse ==
  /\ pc = "LibraryLoop"
  /\ libNext <= Len(BufferIDs)
  /\ LET id == BufferIDs[LibraryBuffer(libNext)]
         n == Len(BufferContent(id))
         from == Len(SF.Decls)
     IN /\ SF' = [SF EXCEPT !.Decls = @ \o ParsedDecls(id, 0, n)]
        /\ trace' = Append(trace, Call("parse", id, from, from + n, 0, DelayedCB))
        /\ Done' = TRUE
  /\ libNext' = libNext + 1
  /\ UNCHANGED <<NDEBUG, ImporterLinked, heap, mutations, pc, TU, lexPos, DelayedCB,
                 BufferID, CurTUElem, iters, empties, HadError>>
  /\ UNCHANGED setupVars

\* Lines 152-160: after the Library loop.
LibraryCheck ==
  /\ pc = "LibraryLoop"
  /\ libNext > Len(BufferIDs)
  /\ trace' = IF ShouldTypeCheck(Invocation)
              THEN Append(trace, Call("check", -1, 0, Len(SF.Decls), 0, "None"))
              ELSE trace
  /\ pc' = AfterPump(DelayedCB)
  /\ UNCHANGED <<NDEBUG, ImporterLinked, heap, mutations, TU, SF, lexPos, DelayedCB,
                 BufferID, CurTUElem, Done, libNext, iters, empties, HadError>>
  /\ UNCHANGED setupVars

\* Lines 180-182 (and 185-186 when parse-only): one call of the incremental parser.
\* It returns a batch of n declarations; Done is set exactly at the end of the buffer.
ParseStep ==
  /\ pc = "Parsing"
  /\ LET K == Len(BufferContent(BufferID)) IN
     \E n \in 0..(K - lexPos) :
       /\ (n = 0 /\ lexPos < K) => empties < MaxEmpty
       /\ LET sf1 == [SF EXCEPT !.Decls = @ \o ParsedDecls(BufferID, lexPos, lexPos + n)]
              done == (lexPos + n = K)
          IN /\ SF' = sf1
             /\ lexPos' = lexPos + n
             /\ Done' = done
             /\ empties' = IF n = 0 THEN empties + 1 ELSE empties
             /\ trace' = Append(trace, Call("parse", BufferID, Len(SF.Decls), Len(sf1.Decls),
                                            SILContextArg(TheSILModule, iters + 1),
                                            DelayedCB))
             /\ IF ShouldTypeCheck(Invocation) THEN
                  /\ pc' = "Checking"
                  /\ UNCHANGED <<CurTUElem, iters>>
                ELSE
                  /\ CurTUElem' = NextCurTUElem(sf1, CurTUElem)
                  /\ iters' = iters + 1
                  /\ pc' = IF LoopAgain(done) THEN "Parsing" ELSE AfterPump(DelayedCB)
  /\ \E err \in BOOLEAN : HadError' = (HadError \/ err)
  /\ UNCHANGED <<NDEBUG, ImporterLinked, heap, mutations, TU, DelayedCB, BufferID, libNext>>
  /\ UNCHANGED setupVars

\* Lines 184-186: performTypeChecking from the cursor, then the cursor and the loop test.
CheckStep ==
  /\ pc = "Checking"
  /\ trace' = Append(trace, Call("check", -1, CheckStart(CurTUElem), Len(SF.Decls),
                                 0, "None"))
  /\ CurTUElem' = NextCurTUElem(SF, CurTUElem)
  /\ iters' = iters + 1
  /\ pc' = IF LoopAgain(Done) THEN "Parsing" ELSE AfterPump(DelayedCB)
  /\ \E err \in BOOLEAN : HadError' = (HadError \/ err)
  /\ UNCHANGED <<NDEBUG, ImporterLinked, heap, mutations, TU, SF, lexPos, DelayedCB,
                 BufferID, Done, libNext, empties>>
  /\ UNCHANGED setupVars

\* Lines 156-159 and 188-191: performDelayedParsing.
DelayedParse ==
  /\ pc = "Delayed"
  /\ trace' = Append(trace, Call("delayed", -1, 0, Len(SF.Decls), 0, DelayedCB))
  /\ pc' = "returned"
  /\ UNCHANGED <<NDEBUG, ImporterLinked, heap, mutations, TU, SF, lexPos, DelayedCB,
                 BufferID, CurTUElem, Done, libNext, iters, empties, HadError>>
  /\ UNCHANGED setupVars

\* ------------------------------------------------------- configurations
Invocations(sdks, imms, searches, kinds, names, points, files, bufs, pos, delays) ==
  [SDKPath : sdks, Immediate : imms, ImportSearchPaths : searches,
   InputKind : kinds, ModuleName : names, CodeCompletionPoint : points,
   InputFilenames : files, InputBuffers : bufs, ParseOnly : pos,
   DelayedFunctionBodyParsing : delays]

NoRequest == <<NullPtr, 0>>

\* One compilation: a configuration without SDK, set up once and run.
RunConfigs ==
  Invocations({""}, {FALSE}, {<<>>}, Kinds, {"main"}, {NoRequest, <<1, 1>>},
              SeqsUpTo(ReadablePaths, MaxPaths), SeqsUpTo(CallerAddrs, MaxMemBufs),
              BOOLEAN, BOOLEAN)

\* One setup call, every way it can end.
SetupConfigs ==
  Invocations({"", "sdk"}, BOOLEAN, {<<>>, <<"inc">>}, {"Library", "SIL"}, {"main", "1x"},
              {NoRequest, <<1, 1>>},
              SeqsUpTo({1, BadPath}, MaxPaths + 1), SeqsUpTo(CallerAddrs, MaxMemBufs),
              {FALSE}, {FALSE})

\* A session of several setup calls on one instance.
SessionConfigs ==
  Invocations({""}, {FALSE}, {<<>>}, {"Library"}, {"main", "1x"},
              {NoRequest, <<1, 1>>, <<2, 0>>},
              SeqsUpTo({0, BadPath}, 1), SeqsUpTo(CallerAddrs, 1),
              {FALSE}, {FALSE})

\* One compilation of a Library, Main or SIL input, with or without an SDK.
KindConfigs ==
  Invocations({"", "sdk"}, {FALSE}, {<<>>}, {"Library", "Main", "SIL"}, {"main", "1x"},
              {NoRequest}, SeqsUpTo({MaxDecls, BadPath}, 1), {<<>>}, BOOLEAN, BOOLEAN)

Contents == {<<>>, <<1>>}

SetupRun ==
  /\ Len(setupLog) = 0
  /\ \E c \in RunConfigs : Setup(c, TRUE)
SetupOnce ==
  /\ Len(setupLog) = 0
  /\ \E c \in SetupConfigs, ok \in BOOLEAN :
       /\ (HasSDK(c) /\ ImporterLinked) \/ ok
       /\ Setup(c, ok)
SetupAgain ==
  /\ Len(setupLog) < MaxSetups
  /\ pc \in {"constructed", "ready"}
  /\ \E c \in SessionConfigs : Setup(c, TRUE)
SetupKinds ==
  /\ Len(setupLog) = 0
  /\ \E c \in KindConfigs, ok \in BOOLEAN :
       /\ (HasSDK(c) /\ ImporterLinked) \/ ok
       /\ Setup(c, ok)
Mutate ==
  /\ Len(setupLog) >= 1
  /\ \E a \in CallerAddrs, c \in Contents : CallerMutate(a, c)

\* One compilation, from construction through setup to the end of doIt, in a build
\* that has the importer (no configuration of this specification names an SDK).
InitRun == Init /\ ImporterLinked

Next ==
  \/ SetupRun
  \/ DoItBegin
  \/ LibraryParse
  \/ LibraryCheck
  \/ ParseStep
  \/ CheckStep
  \/ DelayedParse

Spec == InitRun /\ [][Next]_vars

\* One setup call with every kind of configuration, and the caller's later writes.
NextSetup == SetupOnce \/ Mutate

SpecSetup == Init /\ [][NextSetup]_vars

\* Repeated setup calls on one instance.
NextSession == SetupAgain

SpecSession == Init /\ [][NextSession]_vars

\* One compilation in which setup may stop at the importer, then doIt.
NextKinds ==
  \/ SetupKinds
  \/ DoItBegin
  \/ LibraryParse
  \/ LibraryCheck
  \/ ParseStep
  \/ CheckStep
  \/ DelayedParse

SpecKinds == Init /\ [][NextKinds]_vars

\* One compilation in which doIt, once called, is not suspended for ever: execution
\* is sequential and every parser and checker call returns.
SpecLive ==
  /\ Spec
  /\ WF_vars(ParseStep)
  /\ WF_vars(CheckStep)

\* ------------------------------------------------------------- properties
Finished == pc \in {"Delayed", "returned"}
Pumped == SF.Kind \in {"Main", "SIL"}
Checks == {j \in 1..Len(trace) : trace[j].op = "check"}
Parses == {j \in 1..Len(trace) : trace[j].op = "parse"}

RECURSIVE TotalDecls(_, _)
TotalDecls(ids, i) ==
  IF i > Len(ids) THEN 0 ELSE Len(BufferContent(ids[i])) + TotalDecls(ids, i + 1)

OneDeclEach == \A i \in 1..Len(BufferIDs) : Len(BufferContent(BufferIDs[i])) = 1

\* C1: Library mode, parse-only off, N buffers of one declaration each: a check call
\* is always the (N+1)-th call of doIt, after one whole-buffer parse of each buffer in
\* registration order, and once the Library pass is over the SourceFile holds the N
\* declarations in that order and exactly one check call was made.
C1_LibraryParseAllThenCheckOnce ==
  (SF.Kind = "Library" /\ ~Invocation.ParseOnly /\ OneDeclEach) =>
    LET N == Len(BufferIDs) IN
    /\ \A j \in Checks :
         /\ j = N + 1
         /\ \A i \in 1..N : trace[i] = Call("parse", BufferIDs[i], i - 1, i, 0, DelayedCB)
         /\ trace[j].from = 0 /\ trace[j].to = N
    /\ Finished =>
         /\ Cardinality(Checks) = 1
         /\ Len(SF.Decls) = N
         /\ \A i \in 1..N : SF.Decls[i].buf = BufferIDs[i] /\ SF.Decls[i].idx = 1

C1_Witness ==
  /\ SF.Kind = "Library" /\ ~Invocation.ParseOnly /\ OneDeclEach
  /\ pc = "returned"
  /\ Len(BufferIDs) >= 3
  /\ Len(SF.Decls) = Len(BufferIDs)
  /\ Cardinality(Checks) = 1

C2_Pre == SF.Kind = "Main" /\ Len(BufferIDs) = 1 /\ ~Invocation.ParseOnly /\ Finished
C2_K == Len(BufferContent(BufferIDs[1]))

\* C2 as stated: Main mode, one buffer of K statements, parse-only off: when doIt
\* completes the cursor is K and the pump loop ran between 1 and K times.
C2_IterationsBetweenOneAndK ==
  C2_Pre => (CurTUElem = C2_K /\ 1 <= iters /\ iters <= C2_K)

\* C2 amended: when doIt completes the cursor is K, the loop ran at least once, and
\* the iterations whose batch was not empty number at most K.
C2_CursorAtKAndNonEmptyIterationsAtMostK ==
  C2_Pre => (CurTUElem = C2_K /\ 1 <= iters /\ iters - empties <= C2_K)

C2_Witness == C2_Pre /\ C2_K = 2 /\ iters = 3 /\ empties = 1 /\ CurTUElem = 2

\* C3: with parse-only set no check call is ever made, whatever the input kind, and
\* the parsing doIt does for the kind still reaches the end of its input: every
\* buffer in Library mode, the pumped buffer in Main and SIL mode.
C3_ParseOnlyNeverChecks ==
  Invocation.ParseOnly =>
    /\ Checks = {}
    /\ (Finished /\ SF.Kind = "Library") =>
         /\ Cardinality(Parses) = Len(BufferIDs)
         /\ Len(SF.Decls) = TotalDecls(BufferIDs, 1)
    /\ (Finished /\ Pumped) =>
         /\ Done
         /\ Len(SF.Decls) = Len(BufferContent(BufferID))

C3_Witness ==
  /\ Invocation.ParseOnly /\ pc = "returned" /\ SF.Kind = "Main"
  /\ Len(SF.Decls) = 2 /\ iters = 2

PumpState ==
  IF pc = "Parsing" THEN "Parsing"
  ELSE IF pc = "Checking" THEN "Checking"
  ELSE IF Pumped /\ Finished THEN "Done"
  ELSE "none"

\* C9: the pump of a Main or SIL file starts in Parsing.  With parse-only off every
\* parse step, whatever its batch, goes to Checking, and the Checking step makes one
\* check call and goes to Parsing if the batch's done flag was false and to Done if it
\* was true.  With parse-only on a parse step goes to Parsing or, on done, to Done, and
\* Checking is never entered.  Done is never left.
C9_PumpStateMachine ==
  [][/\ (pc = "ready" /\ SF'.Kind \in {"Main", "SIL"} /\ pc' \notin {"aborted", "crashed"})
          => PumpState' = "Parsing"
     /\ (PumpState = "Parsing" /\ ~Invocation.ParseOnly)
          => (PumpState' = "Checking" /\ Len(trace') = Len(trace) + 1
              /\ trace'[Len(trace')].op = "parse")
     /\ (PumpState = "Parsing" /\ Invocation.ParseOnly)
          => PumpState' = (IF Done' THEN "Done" ELSE "Parsing")
     /\ PumpState = "Checking"
          => (/\ ~Invocation.ParseOnly
              /\ PumpState' = (IF Done THEN "Done" ELSE "Parsing")
              /\ Len(trace') = Len(trace) + 1
              /\ trace'[Len(trace')].op = "check")
     /\ PumpState = "Done" => PumpState' = "Done"
     /\ PumpState' = "Checking" => PumpState = "Parsing"
    ]_vars

C9_Witness ==
  /\ PumpState = "Done" /\ ~Invocation.ParseOnly
  /\ empties = 1 /\ iters = 3
  /\ Cardinality(Checks) = 3

\* C10: in a Main or SIL run the cursor is 0 until the first iteration ends, never
\* decreases, and never exceeds the number of declarations of the SourceFile.
C10_CursorBounded ==
  [][/\ Pumped' => (/\ 0 <= CurTUElem'
                    /\ CurTUElem' <= Len(SF'.Decls)
                    /\ iters' = 0 => CurTUElem' = 0)
     /\ Pumped => CurTUElem' >= CurTUElem
    ]_vars

C10_Witness ==
  /\ Pumped /\ pc = "Checking" /\ CurTUElem = 1 /\ Len(SF.Decls) = 2

\* ---------------------------------------------------- properties of setup
SetupDone == Len(setupLog) >= 1
LastSetup == setupLog[Len(setupLog)]
ReachedInputs(r) ==
  r.diag \notin {"error_clang_importer_not_linked_in", "error_clang_importer_create_fail",
                 "assert"}
Unreadable(files) == {i \in 1..Len(files) : getFileOrSTDINFails(files[i])}
FirstUnreadable(files) == CHOOSE i \in Unreadable(files) : \A j \in Unreadable(files) : i <= j
RegisteredObject(id) == heap[SourceMgr.bufs[id + 1]]
CompletionCount(inv) == IF inv.CodeCompletionPoint[1] # NullPtr THEN 1 ELSE 0

\* C4: when setup gets to its input files and the first unreadable one is at
\* position i, setup returns the open-input-file error naming that path, it tried
\* exactly the paths up to position i, it registered one buffer for each path before
\* i, in order, and it registered no in-memory input buffer.
C4_FailFast ==
  (SetupDone /\ ReachedInputs(LastSetup) /\ Unreadable(Invocation.InputFilenames) # {}) =>
    LET r == LastSetup
        files == Invocation.InputFilenames
        i == FirstUnreadable(files)
        c == CompletionCount(Invocation)
    IN /\ r.ret = TRUE
       /\ r.diag = "error_open_input_file"
       /\ r.file = files[i]
       /\ Diagnostics[Len(Diagnostics)] = [ID |-> "error_open_input_file", file |-> files[i]]
       /\ r.opened = SubSeq(files, 1, i)
       /\ Len(r.reg) = c + i - 1
       /\ BufferIDs = r.idsBefore \o r.reg
       /\ \A k \in 1..(i - 1) :
            /\ RegisteredObject(r.reg[c + k]).ident = files[k]
            /\ RegisteredObject(r.reg[c + k]).buf = FileContent(files[k])

C4_Witness ==
  /\ SetupDone /\ LastSetup.diag = "error_open_input_file"
  /\ Len(Invocation.InputFilenames) = 3
  /\ FirstUnreadable(Invocation.InputFilenames) = 2
  /\ Invocation.InputFilenames[3] = 1
  /\ Invocation.InputBuffers # <<>>
  /\ Len(BufferIDs) = 1

\* C5: with an SDK path and no importer constructor in the build, setup returns the
\* importer-not-linked error having registered no buffer, opened no file and copied no
\* caller buffer; the context holds the two default loaders and no SIL module exists.
C5_NoImporterStopsSetup ==
  (SetupDone /\ HasSDK(Invocation) /\ ~ImporterLinked) =>
    /\ LastSetup.ret = TRUE
    /\ LastSetup.diag = "error_clang_importer_not_linked_in"
    /\ Diagnostics = <<[ID |-> "error_clang_importer_not_linked_in", file |-> -2]>>
    /\ BufferIDs = <<>>
    /\ SourceMgr.bufs = <<>>
    /\ SourceMgr.ccPoint = NoPoint
    /\ LastSetup.opened = <<>>
    /\ Len(heap) = Cardinality(CallerAddrs)
    /\ Context.Loaders = <<SourceLoader(~Invocation.Immediate), SerializedModuleLoader>>
    /\ ~TheSILModule

C5_Witness ==
  /\ SetupDone /\ HasSDK(Invocation) /\ ~ImporterLinked
  /\ Invocation.InputKind = "SIL"
  /\ Invocation.CodeCompletionPoint[1] # NullPtr
  /\ Len(Invocation.InputFilenames) = 2
  /\ Invocation.InputBuffers # <<>>
  /\ LastSetup.ret = TRUE

\* C6: without an SDK path, with every input readable and a module name that is an
\* identifier, setup returns success and the context holds exactly two loaders, the
\* source loader first and the serialized-module loader second, whatever the
\* immediate flag and the search paths are.
C6_TwoDefaultLoaders ==
  (/\ SetupDone /\ ~HasSDK(Invocation)
   /\ Unreadable(Invocation.InputFilenames) = {}
   /\ isIdentifier(Invocation.ModuleName)) =>
    /\ LastSetup.ret = FALSE
    /\ Len(Context.Loaders) = 2
    /\ Context.Loaders[1].kind = "SourceLoader"
    /\ Context.Loaders[1].arg = ~Invocation.Immediate
    /\ Context.Loaders[2].kind = "SerializedModuleLoader"

C6_Witness ==
  /\ SetupDone /\ ~HasSDK(Invocation) /\ LastSetup.ret = FALSE
  /\ Invocation.Immediate
  /\ Invocation.ImportSearchPaths # <<>>
  /\ Len(Invocation.InputFilenames) = 2
  /\ Len(Context.Loaders) = 2

\* C7: a setup call that carries a completion request while a completion point is
\* already set is rejected as a configuration error (it returns failure before any
\* input is acquired), and a recorded completion point never changes.
C7_SecondCompletionPointRejected ==
  /\ \A i \in 1..Len(setupLog) :
       (setupLog[i].ccReq /\ setupLog[i].ccBefore # NoPoint) =>
         (setupLog[i].ret = TRUE /\ setupLog[i].reg = <<>> /\ setupLog[i].opened = <<>>)
  /\ \A i \in 1..Len(setupLog) :
       setupLog[i].ccBefore # NoPoint => SourceMgr.ccPoint = setupLog[i].ccBefore

\* C8: setup leaves the caller's buffers as they were, every registered buffer is an
\* object of its own and not one of the caller's, and the registry's copy of the
\* completion buffer and of every in-memory input buffer keeps the bytes the caller's
\* buffer had when setup was called, whatever the caller writes afterwards.
RegistryHoldsIngestedBytes ==
  /\ \A j \in 1..Len(SourceMgr.bufs) : SourceMgr.bufs[j] \notin CallerAddrs
  /\ (SetupDone /\ LastSetup.ret = FALSE) =>
       LET r == LastSetup
           c == CompletionCount(Invocation)
           f == Len(Invocation.InputFilenames)
           bufs == Invocation.InputBuffers
       IN /\ Len(r.reg) = c + f + Len(bufs)
          /\ c = 1 => RegisteredObject(r.reg[1]).buf
                        = r.callerBefore[Invocation.CodeCompletionPoint[1]]
          /\ \A k \in 1..Len(bufs) :
               RegisteredObject(r.reg[c + f + k]).buf = r.callerBefore[bufs[k]]

C8_RegistryCopiesCallerBuffers ==
  [][/\ RegistryHoldsIngestedBytes'
     /\ Len(setupLog') > Len(setupLog) => \A a \in CallerAddrs : heap'[a] = heap[a]
    ]_vars

C8_Witness ==
  /\ SetupDone /\ LastSetup.ret = FALSE
  /\ Invocation.CodeCompletionPoint[1] # NullPtr
  /\ Len(Invocation.InputBuffers) = 1
  /\ heap[Invocation.InputBuffers[1]].buf # LastSetup.callerBefore[Invocation.InputBuffers[1]]
  /\ RegisteredObject(LastSetup.reg[Len(LastSetup.reg)]).buf
       = LastSetup.callerBefore[Invocation.InputBuffers[1]]

\* ---------------------------------------------------- further properties of doIt
Started == pc \notin {"constructed", "ready"}
Delayeds == {j \in 1..Len(trace) : trace[j].op = "delayed"}

\* C11: in Main or SIL mode doIt parses only when exactly one buffer is registered;
\* with none or with several it aborts before any parse, check or delayed-parse call
\* and before the hashbang buffer is set.
C11_OneBufferOrAbort ==
  (Started /\ Invocation.InputKind \in {"Main", "SIL"} /\ Len(BufferIDs) # 1) =>
    /\ pc = "aborted"
    /\ trace = <<>>
    /\ SourceMgr.hashbang = -1

ParsingKind == SF.Kind \in {"Library", "Main", "SIL"}

PolicyAsSpecified ==
  (Started /\ ParsingKind) =>
    /\ DelayedCB = (IF SourceMgr.ccPoint # NoPoint THEN "CodeComplete"
                    ELSE IF Invocation.DelayedFunctionBodyParsing THEN "AlwaysDelayed"
                    ELSE "None")
    /\ \A j \in Parses : trace[j].cb = DelayedCB

\* C12: once doIt has started on a Library, Main or SIL file the delayed-parsing
\* policy is the completion policy iff a completion point is registered, else the
\* always-delay policy iff the configuration asks for delayed bodies, else none; it
\* never changes afterwards and every parse call carries it.
C12_PolicyChosenOnce ==
  [][/\ PolicyAsSpecified'
     /\ (Started /\ ParsingKind) => DelayedCB' = DelayedCB
    ]_vars

C12_Witness ==
  /\ pc = "returned" /\ SF.Kind = "Main"
  /\ SourceMgr.ccPoint # NoPoint
  /\ Invocation.DelayedFunctionBodyParsing
  /\ DelayedCB = "CodeComplete"
  /\ Cardinality(Parses) = 2

\* C13: a Library, Main or SIL run that completes has made exactly one delayed-parse
\* call if the policy is not none and no such call if it is none, with parse-only set
\* or not; a delayed-parse call is never followed by another call.
C13_DelayedParsingLast ==
  /\ \A j \in Delayeds : j = Len(trace) /\ DelayedCB # "None" /\ pc = "returned"
  /\ (pc = "returned" /\ ParsingKind) =>
       Cardinality(Delayeds) = (IF DelayedCB # "None" THEN 1 ELSE 0)

C13_Witness ==
  /\ pc = "returned" /\ SF.Kind = "SIL" /\ Invocation.ParseOnly
  /\ DelayedCB = "AlwaysDelayed"
  /\ Len(trace) = 3
  /\ trace[3].op = "delayed"

\* C14: in REPL mode doIt creates the translation unit under the configured module
\* name with one SourceFile of kind REPL, registers it as a loaded module and
\* returns: no parse, check or delayed-parse call is made, no hashbang buffer is set
\* and no delayed-parsing callbacks are created, whatever the configuration and the
\* registered buffers are.
C14_REPLReturnsBeforeParsing ==
  (Started /\ Invocation.InputKind = "REPL") =>
    /\ pc = "returned"
    /\ TU = [Name |-> Invocation.ModuleName, Files |-> <<"REPL">>]
    /\ Invocation.ModuleName \in Context.LoadedModules
    /\ SF = [Kind |-> "REPL", Decls |-> <<>>]
    /\ trace = <<>>
    /\ SourceMgr.hashbang = -1
    /\ DelayedCB = "None"
    /\ lexPos = 0 /\ iters = 0 /\ CurTUElem = 0

C14_Witness ==
  /\ Started /\ Invocation.InputKind = "REPL" /\ pc = "returned"
  /\ Len(BufferIDs) >= 3
  /\ ~Invocation.ParseOnly
  /\ Invocation.DelayedFunctionBodyParsing
  /\ SourceMgr.ccPoint # NoPoint

\* C15: when an SDK path is configured and the importer constructor is linked in,
\* either the constructor returns a loader, which becomes the third and last entry
\* of the chain after the source loader and the serialized module loader, or it
\* returns none and setup returns true with error_clang_importer_create_fail, the
\* chain holding exactly the two default loaders, the import search paths being the
\* configured ones without the runtime include path, and no buffer registered.
C15_ImporterThirdOrSetupFails ==
  (SetupDone /\ HasSDK(Invocation) /\ ImporterLinked) =>
    IF LastSetup.ctor
    THEN /\ Len(Context.Loaders) = 3
         /\ Context.Loaders[1] = SourceLoader(~Invocation.Immediate)
         /\ Context.Loaders[2] = SerializedModuleLoader
         /\ Context.Loaders[3] = ClangImporter
         /\ LastSetup.diag # "error_clang_importer_create_fail"
    ELSE /\ LastSetup.ret
         /\ LastSetup.diag = "error_clang_importer_create_fail"
         /\ Context.Loaders = <<SourceLoader(~Invocation.Immediate), SerializedModuleLoader>>
         /\ Context.ImportSearchPaths = Invocation.ImportSearchPaths
         /\ BufferIDs = <<>>
         /\ SourceMgr.bufs = <<>>
         /\ SourceMgr.ccPoint = NoPoint
         /\ LastSetup.opened = <<>>

C15_Witness ==
  /\ SetupDone /\ HasSDK(Invocation) /\ ImporterLinked
  /\ ~LastSetup.ctor
  /\ Invocation.CodeCompletionPoint[1] # NullPtr
  /\ Invocation.InputFilenames # <<>>
  /\ Invocation.ImportSearchPaths # <<>>

\* The declaration at position d (counted from 1) lies in the range of check call j.
InCheckRange(d, j) == trace[j].from < d /\ d <= trace[j].to

SubmittedBelowCursor ==
  \A d \in 1..CurTUElem : \E j \in Checks : InCheckRange(d, j)

\* C16 as stated: in a Main or SIL run, for every value of the parse-only flag,
\* every declaration below the cursor lies in the range of some check call.
C16_CursorCountsSubmittedDecls ==
  Pumped => SubmittedBelowCursor

\* C16 amended: in a Main or SIL run with parse-only off every declaration below
\* the cursor lies in the range of some check call; with parse-only on the cursor
\* advances all the same while no check call is ever made.
C16_CursorCountsSubmittedDeclsUnlessParseOnly ==
  /\ (Pumped /\ ~Invocation.ParseOnly) => SubmittedBelowCursor
  /\ (Pumped /\ Invocation.ParseOnly) => (Checks = {} /\ (iters >= 1 => CurTUElem = Len(SF.Decls)))

C16_Witness ==
  /\ Pumped /\ ~Invocation.ParseOnly
  /\ pc = "Parsing"
  /\ CurTUElem = 1 /\ iters = 1
  /\ Cardinality(Checks) = 1

\* C17: in a Main or SIL run with parse-only off parse and check calls alternate;
\* the i-th check call ends at the declaration count its parse call left and starts
\* at the end of the (i-1)-th check call, at 0 for the first; so when the pump is
\* over every declaration of the file lies in the range of exactly one check call.
C17_CheckRangesPartitionFile ==
  (Pumped /\ ~Invocation.ParseOnly) =>
    /\ \A j \in Checks :
         /\ j % 2 = 0
         /\ trace[j - 1].op = "parse"
         /\ trace[j].to = trace[j - 1].to
         /\ trace[j].from = (IF j = 2 THEN 0 ELSE trace[j - 2].to)
         /\ j > 2 => trace[j - 2].op = "check"
         /\ trace[j].from <= trace[j].to
    /\ Finished =>
         /\ Len(SF.Decls) = Len(BufferContent(BufferID))
         /\ \A d \in 1..Len(SF.Decls) :
              Cardinality({j \in Checks : InCheckRange(d, j)}) = 1

C17_Witness ==
  /\ Pumped /\ ~Invocation.ParseOnly /\ pc = "returned"
  /\ Len(SF.Decls) = 2
  /\ Cardinality(Checks) = 3
  /\ empties = 1

PumpComplete ==
  /\ PumpState = "Done"
  /\ Done
  /\ Len(SF.Decls) = Len(BufferContent(BufferID))
  /\ CurTUElem = Len(SF.Decls)
  /\ ~Invocation.ParseOnly =>
       /\ Cardinality(Checks) = Cardinality(Parses)
       /\ SubmittedBelowCursor

\* C18: a pump loop that has been entered always reaches Done, with the parser at
\* the end of the buffer, every declaration of the buffer in the SourceFile and, with
\* parse-only off, one check call per parse call covering all of them, whether or
\* not parse or check steps reported errors on the way.
C18_PumpRunsToDone == (pc = "Parsing") ~> PumpComplete

C18_Witness ==
  /\ pc = "Parsing" /\ HadError /\ ~Invocation.ParseOnly
  /\ iters = 1 /\ ~Done
  /\ lexPos < Len(BufferContent(BufferID))

GotPastLoaders(r) ==
  r.diag \notin {"error_clang_importer_not_linked_in", "error_clang_importer_create_fail"}

\* C19: when a setup call returns, the SIL module exists iff the input kind is SIL
\* and setup did not stop at the importer; in a SIL run every parse call receives the
\* one SILParserState of the doIt call; in Main and Library runs every parse call
\* receives a null SIL state.
C19_SILStateThreaded ==
  /\ (SetupDone /\ LastSetup.diag # "assert") =>
       (TheSILModule <=> (Invocation.InputKind = "SIL" /\ GotPastLoaders(LastSetup)))
  /\ SF.Kind = "SIL" =>
       \A j \in Parses : trace[j].sil # 0 /\ \A k \in Parses : trace[k].sil = trace[j].sil
  /\ SF.Kind \in {"Main", "Library"} => \A j \in Parses : trace[j].sil = 0

C19_Witness ==
  /\ SF.Kind = "SIL" /\ pc = "returned"
  /\ HasSDK(Invocation)
  /\ TheSILModule
  /\ Cardinality(Parses) = 3
  /\ \A j \in Parses : trace[j].sil # 0

====
